---- MODULE Spec2Model ----
(***************************************************************************)
(* A model of app.py of cek-posisi: the name normalizer, the coordinate    *)
(* extractor, the pt locator, the coverage map and the Streamlit        *)
(* script with its two st.cache_data caches.                               *)
(*                                                                         *)
(* A Python str is a sequence of one-character strings.  The four pure     *)
(* functions are each checked under a specification that draws the         *)
(* arguments in Init and applies the function; Spec is the running app.    *)
(***************************************************************************)
EXTENDS Integers, Sequences, FiniteSets, TLC

VARIABLES
    \* normalize_sls_name applied once and twice
    parts,          \* how the argument was put together (bookkeeping)
    name,           \* the argument of normalize_sls_name
    normalized,     \* normalize_sls_name(name)
    renormalized,   \* normalize_sls_name(normalized)
    pcN,
    \* extract_coords applied to a map link
    urlSegs,        \* the pieces the link was put together from (bookkeeping)
    urlText,        \* the argument of extract_coords
    coords,         \* extract_coords(urlText)
    pcE,
    \* find_containing_feature applied to a pt and a collection
    pt,
    geojson,
    located,        \* the feature returned, None, or an exception
    pcL,
    \* the coverage map drawn from a DataFrame and a collection
    frame,
    boundaries,
    covered,        \* input_names, as handed to create_coverage_map
    drawn,          \* what create_coverage_map draws
    pcC,
    \* the running app
    files,          \* each data file: missing, corrupt or valid
    sheet,          \* the spreadsheet behind the csv link, as it is now
    dataCache,      \* st.cache_data of load_data
    csvCache,       \* st.cache_data of load_remote_csv
    link,            \* the text input of tab 1
    view,           \* what the last run of the script rendered
    lastStep,       \* the last event and what it did (bookkeeping)
    epoch           \* the sheet as it was at the first analysis since the
                    \* start or the last Refresh (bookkeeping)

normVars == <<parts, name, normalized, renormalized, pcN>>
extractVars == <<urlSegs, urlText, coords, pcE>>
locateVars == <<pt, geojson, located, pcL>>
coverVars == <<frame, boundaries, covered, drawn, pcC>>
appVars == <<files, sheet, dataCache, csvCache, link, view, lastStep, epoch>>
vars == <<normVars, extractVars, locateVars, coverVars, appVars>>

\* ------------------------------------------------------------------ bounds
MaxPad == 2         \* most leading zeros written before a unit number
MaxLen == 4         \* longest raw string enumerated character by character
MaxSegs == 3        \* most pieces a map link is put together from
MaxFeatures == 3    \* most features in a collection
MaxRows == 2        \* most rows in a DataFrame

\* ----------------------------------------------------------------- strings
Min(S) == CHOOSE x \in S : \A y \in S : x <= y
Max(S) == CHOOSE x \in S : \A y \in S : x >= y

\* F(e), with e evaluated once: a local variable of the code.
Once(e, F(_)) == CHOOSE r \in {F(x) : x \in {e}} : TRUE

LowerLetters == <<"a","b","c","d","e","f","g","h","i","j","k","l","m",
                  "n","o","p","q","r","s","t","u","v","w","x","y","z">>
UpperLetters == <<"A","B","C","D","E","F","G","H","I","J","K","L","M",
                  "N","O","P","Q","R","S","T","U","V","W","X","Y","Z">>
Digits == <<"0","1","2","3","4","5","6","7","8","9">>

\* \s of re, and what str.strip() removes
IsSpace(c) == c \in {" ", "\t", "\n"}
\* \d of re
IsDigit(c) == \E d \in 1..10 : Digits[d] = c
\* . of re (no DOTALL): anything but a line break
IsDot(c) == c # "\n"

UpperChar(c) ==
    IF \E i \in 1..26 : LowerLetters[i] = c
    THEN UpperLetters[CHOOSE i \in 1..26 : LowerLetters[i] = c]
    ELSE c

\* str.upper()
upper(s) == [i \in 1..Len(s) |-> UpperChar(s[i])]

\* str.strip()
strip(s) ==
    LET keep == {i \in 1..Len(s) : ~IsSpace(s[i])}
    IN IF keep = {} THEN <<>> ELSE SubSeq(s, Min(keep), Max(keep))

\* Where a greedy run of P-characters that starts at i ends (one past it).
RunEnd(s, i, P(_)) ==
    LET stops == {j \in i..Len(s) : ~P(s[j])}
    IN IF stops = {} THEN Max({Len(s) + 1, i}) ELSE Min(stops)

DigitVal(c) == (CHOOSE d \in 1..10 : Digits[d] = c) - 1

RECURSIVE ParseInt(_)
\* int(<digits>)
ParseInt(ds) ==
    IF ds = <<>> THEN 0
    ELSE 10 * ParseInt(SubSeq(ds, 1, Len(ds) - 1)) + DigitVal(ds[Len(ds)])

RECURSIVE DigitsOf(_)
\* str(n) for n >= 0
DigitsOf(n) ==
    IF n < 10 THEN <<Digits[n + 1]>>
    ELSE DigitsOf(n \div 10) \o <<Digits[(n % 10) + 1]>>

RECURSIVE Zeros(_)
Zeros(k) == IF k <= 0 THEN <<>> ELSE <<"0">> \o Zeros(k - 1)

PadWidth == 3
\* f"{n:03d}": zero-padded to three digits, longer numbers kept whole
Format03d(n) == Zeros(PadWidth - Len(DigitsOf(n))) \o DigitsOf(n)

\* -------------------------------------------------------- normalize_sls_name
\* A value handed to normalize_sls_name: a str, or something else (a float
\* cell of the sheet, a null property).
Str(s) == [t |-> "str", s |-> s]
NotAStr == [t |-> "float", s |-> <<>>]

\* An attempt to match RT\s+(\d+)\s+(.*) with the R at position i.  Every
\* quantifier is greedy and is followed by a character outside its class, so
\* the only match is the one with maximal runs.
RtMatchAt(s, i) ==
    IF ~(i + 1 <= Len(s) /\ s[i] = "R" /\ s[i + 1] = "T")
    THEN [ok |-> FALSE, g1 |-> <<>>, g2 |-> <<>>]
    ELSE LET a == i + 2
             b == RunEnd(s, a, IsSpace)
             c == RunEnd(s, b, IsDigit)
             d == RunEnd(s, c, IsSpace)
             e == RunEnd(s, d, IsDot)
         IN IF b > a /\ c > b /\ d > c
            THEN [ok |-> TRUE, g1 |-> SubSeq(s, b, c - 1), g2 |-> SubSeq(s, d, e - 1)]
            ELSE [ok |-> FALSE, g1 |-> <<>>, g2 |-> <<>>]

\* re.search(r'RT\s+(\d+)\s+(.*)', s): the leftmost match, or none
RtSearch(s) ==
    LET hits == {i \in 1..Len(s) : RtMatchAt(s, i).ok}
    IN IF hits = {} THEN [ok |-> FALSE, g1 |-> <<>>, g2 |-> <<>>]
       ELSE RtMatchAt(s, Min(hits))

\* env_name = match.group(2) with the mutation: the trailing strip() left out
EnvNameUnstripped(g2) == g2

\* env_name = match.group(2).strip()
EnvName(g2) == strip(g2)

\* The two returns after name = name.upper().strip().
Reassemble(nm) ==
    Once(RtSearch(nm), LAMBDA match :
        IF match.ok
        THEN <<"R", "T", " ">> \o Format03d(ParseInt(match.g1))
                \o <<" ">> \o EnvName(match.g2)
        ELSE nm)

normalize_sls_name(v) ==
    IF v.t # "str" THEN <<>>
    ELSE Once(strip(upper(v.s)), Reassemble)

\* ------------------------------------------------------------ extract_coords
\* A Python float read from a decimal literal, as the exact decimal it
\* denotes (num / 10^scale, trailing zeros of the fraction dropped); exact for
\* literals of up to 15 significant digits.  -0.0 equals 0.0.
Float(num, scale) == [num |-> num, scale |-> scale]
NoneValue == [none |-> TRUE]

RECURSIVE DropTrailingZeros(_)
DropTrailingZeros(ds) ==
    IF ds # <<>> /\ ds[Len(ds)] = "0"
    THEN DropTrailingZeros(SubSeq(ds, 1, Len(ds) - 1))
    ELSE ds

\* float(<text>) for a text of the shape -?\d+\.\d+
float(text) ==
    LET neg == text[1] = "-"
        body == IF neg THEN SubSeq(text, 2, Len(text)) ELSE text
        dot == CHOOSE i \in 1..Len(body) : body[i] = "."
        frac == DropTrailingZeros(SubSeq(body, dot + 1, Len(body)))
        mag == ParseInt(SubSeq(body, 1, dot - 1) \o frac)
    IN Float(IF neg THEN 0 - mag ELSE mag, Len(frac))

\* An attempt to match -?\d+\.\d+ at position j; end is one past the match.
NumberAt(s, j) ==
    LET a == IF j <= Len(s) /\ s[j] = "-" THEN j + 1 ELSE j
        b == RunEnd(s, a, IsDigit)
        c == RunEnd(s, b + 1, IsDigit)
    IN [ok |-> /\ b > a
               /\ b <= Len(s)
               /\ s[b] = "."
               /\ c > b + 1,
        end |-> c]

\* An attempt to match <prefix>(-?\d+\.\d+),(-?\d+\.\d+) at position i
PairAt(s, i, prefix) ==
    LET j == i + Len(prefix)
    IN IF ~(j - 1 <= Len(s) /\ SubSeq(s, i, j - 1) = prefix)
       THEN [ok |-> FALSE, g1 |-> <<>>, g2 |-> <<>>]
       ELSE LET n1 == NumberAt(s, j)
                n2 == NumberAt(s, n1.end + 1)
            IN IF n1.ok /\ n1.end <= Len(s) /\ s[n1.end] = "," /\ n2.ok
               THEN [ok |-> TRUE,
                     g1 |-> SubSeq(s, j, n1.end - 1),
                     g2 |-> SubSeq(s, n1.end + 1, n2.end - 1)]
               ELSE [ok |-> FALSE, g1 |-> <<>>, g2 |-> <<>>]

\* re.search(<prefix>(-?\d+\.\d+),(-?\d+\.\d+), s): the leftmost match, or none
PairSearch(s, prefix) ==
    LET hits == {i \in 1..Len(s) : PairAt(s, i, prefix).ok}
    IN IF hits = {} THEN [ok |-> FALSE, g1 |-> <<>>, g2 |-> <<>>]
       ELSE PairAt(s, Min(hits), prefix)

AtPrefix == <<"@">>
QPrefix == <<"q", "=">>

\* The two patterns in the order the code tries them.
FirstPattern == AtPrefix
SecondPattern == QPrefix

\* The second search, made when the first found nothing.
SecondTry(url) ==
    Once(PairSearch(url, SecondPattern), LAMBDA match_q :
        IF match_q.ok THEN <<float(match_q.g1), float(match_q.g2)>>
        ELSE <<NoneValue, NoneValue>>)

\* extract_coords with the mutation: the two patterns tried in the other order
extract_coords_q_first(url) ==
    Once(PairSearch(url, SecondPattern), LAMBDA match_q :
        IF match_q.ok THEN <<float(match_q.g1), float(match_q.g2)>>
        ELSE Once(PairSearch(url, FirstPattern), LAMBDA match :
                IF match.ok THEN <<float(match.g1), float(match.g2)>>
                ELSE <<NoneValue, NoneValue>>))

extract_coords(url) ==
    Once(PairSearch(url, FirstPattern), LAMBDA match :
        IF match.ok THEN <<float(match.g1), float(match.g2)>>
        ELSE SecondTry(url))

\* --------------------------------------------------- find_containing_feature
RECURSIVE Pow10(_)
Pow10(k) == IF k <= 0 THEN 1 ELSE 10 * Pow10(k - 1)

\* a < b for two floats
FloatLt(a, b) == a.num * Pow10(b.scale) < b.num * Pow10(a.scale)

\* shapely's Point(x, y)
Point(x, y) == [x |-> x, y |-> y]

\* A GeoJSON Polygon whose ring is the rectangle (x0, y0)-(x1, y1), in
\* longitude/latitude order.
Rectangle(x0, y0, x1, y1) ==
    [type |-> "Polygon", x0 |-> x0, y0 |-> y0, x1 |-> x1, y1 |-> y1]

\* shape(geometry) raises: a null geometry, or a type shapely does not know
ShapeRaises(geometry) ==
    \/ "type" \notin DOMAIN geometry
    \/ geometry.type # "Polygon"

\* polygon.contains(point): the point lies in the interior; a point on the
\* ring is not contained
contains(polygon, point) ==
    /\ FloatLt(polygon.x0, point.x)
    /\ FloatLt(point.x, polygon.x1)
    /\ FloatLt(polygon.y0, point.y)
    /\ FloatLt(point.y, polygon.y1)

\* An exception that leaves the function.
Raised == [raised |-> TRUE]

RECURSIVE Scan(_, _)

\* the except clause with the mutation: the exception is re-raised
OnExceptionPropagate(features, point) == Raised

\* except Exception: continue
OnException(features, point) == Scan(Tail(features), point)

\* the loop with the mutation: the last containing feature is kept
ScanLast(features, point) ==
    LET hits == {i \in 1..Len(features) :
                    /\ ~ShapeRaises(features[i].geometry)
                    /\ contains(features[i].geometry, point)}
    IN IF hits = {} THEN NoneValue ELSE features[Max(hits)]

\* for feature in geojson_data['features']: ... return feature / return None
Scan(features, point) ==
    IF features = <<>> THEN NoneValue
    ELSE LET feature == features[1]
         IN IF ShapeRaises(feature.geometry) THEN OnException(features, point)
            ELSE IF contains(feature.geometry, point) THEN feature
            ELSE Scan(Tail(features), point)

\* bool(geojson_data): None and {} are falsy
Truthy(geojson_data) == "features" \in DOMAIN geojson_data

find_containing_feature(point, geojson_data) ==
    IF ~Truthy(geojson_data) THEN NoneValue
    ELSE Scan(geojson_data.features, point)

\* ------------------------------------------------------- create_coverage_map
\* dict.get(key, default)
Get(props, key, default) == IF key \in DOMAIN props THEN props[key] ELSE default

\* style_function with the mutation: the raw name is looked up
style_function_raw(feature, covered_names, name_key) ==
    LET nm == Get(feature.properties, name_key, Str(<<>>)).s
        is_covered == nm \in covered_names
    IN [fillColor |-> IF is_covered THEN "#00FF00" ELSE "#FF0000",
        color |-> "black",
        fillOpacity |-> IF is_covered THEN "0.6" ELSE "0.4"]

style_function(feature, covered_names, name_key) ==
    Once(normalize_sls_name(Get(feature.properties, name_key, Str(<<>>)))
            \in covered_names,
         LAMBDA is_covered :
            [fillColor |-> IF is_covered THEN "#00FF00" ELSE "#FF0000",
             color |-> "black",
             fillOpacity |-> IF is_covered THEN "0.6" ELSE "0.4"])

\* What is drawn: an error, or the GeoJson layer, one styled feature per
\* feature of the collection in its order.
create_coverage_map(geojson_data, covered_names, name_key) ==
    IF ~Truthy(geojson_data) THEN [shown |-> "no_geojson", layer |-> <<>>]
    ELSE [shown |-> "map",
          layer |-> [i \in 1..Len(geojson_data.features) |->
                        [feature |-> geojson_data.features[i],
                         style |-> style_function(geojson_data.features[i],
                                                  covered_names, name_key)]]]

\* ------------------------------------------------------------ main, tab 2
\* A cell of the DataFrame: a str, a float, or NaN.
NaN == [t |-> "nan", s |-> <<>>]

Index(seq, x) == Min({i \in 1..Len(seq) : seq[i] = x})

\* The column the names are read from, as its position.
SlsColumn(df) ==
    IF \E i \in 1..Len(df.columns) : df.columns[i] = "SLS"
    THEN Index(df.columns, "SLS")
    ELSE IF Len(df.columns) > 1 THEN 2
    ELSE 1

\* set(df_input[sls_col].dropna().apply(normalize_sls_name))
InputNames(df) ==
    LET col == SlsColumn(df)
    IN {normalize_sls_name(df.rows[r][col]) :
            r \in {k \in 1..Len(df.rows) : df.rows[k][col] # NaN}}

CoverageTab(df_input, sls) ==
    IF df_input # NoneValue
    THEN Once(InputNames(df_input), LAMBDA input_names :
            create_coverage_map(sls, input_names, "nmsls"))
    ELSE [shown |-> "fetch_failed", layer |-> <<>>]

\* ------------------------------------------------------------ main, tab 1
Tiers == {"sls", "lingkungan", "kelurahan"}

SingleTab(url, data) ==
    IF url = <<>> THEN [shown |-> "prompt", latlon |-> <<NoneValue, NoneValue>>,
                         found |-> [t \in Tiers |-> NoneValue]]
    ELSE Once(extract_coords(url), LAMBDA ll :
            IF ll[1] # NoneValue /\ ll[2] # NoneValue
            THEN [shown |-> "maps", latlon |-> ll,
                  found |-> [t \in Tiers |->
                                find_containing_feature(Point(ll[2], ll[1]), data[t])]]
            ELSE [shown |-> "warning", latlon |-> ll,
                  found |-> [t \in Tiers |-> NoneValue]])

\* ------------------------------------------------------- the two caches
EmptyCache == [full |-> FALSE, value |-> NoneValue]
Cached(v) == [full |-> TRUE, value |-> v]

\* The documents the three data files hold when they are well-formed.
SlsA == [properties |-> [nmsls |-> Str(<<"R", "T", " ", "0", "0", "9", " ", "A">>)],
         geometry |-> Rectangle(Float(116, 0), Float(-9, 0), Float(118, 0), Float(-7, 0))]
SlsB == [properties |-> [nmsls |-> Str(<<"R", "T", " ", "9", " ", "A">>)],
         geometry |-> Rectangle(Float(117, 0), Float(-8, 0), Float(119, 0), Float(-6, 0))]
SlsC == [properties |-> [nmsls |-> Str(<<"b">>)],
         geometry |-> Rectangle(Float(118, 0), Float(-9, 0), Float(120, 0), Float(-7, 0))]
SlsNoType == [properties |-> [kdsls |-> Str(<<"1">>)],
              geometry |-> [type |-> "Bogus"]]
SlsNull == [properties |-> [nmsls |-> NotAStr], geometry |-> NoneValue]
Ling == [properties |-> [lingkungan |-> Str(<<"A">>)],
         geometry |-> Rectangle(Float(116, 0), Float(-9, 0), Float(120, 0), Float(-6, 0))]
Kel == [properties |-> [nmdesa |-> Str(<<"K">>)],
        geometry |-> Rectangle(Float(110, 0), Float(-9, 0), Float(117, 0), Float(-8, 0))]

Document(t) ==
    CASE t = "sls" -> [features |-> <<SlsA, SlsNoType, SlsB, SlsC>>]
      [] t = "lingkungan" -> [features |-> <<Ling>>]
      [] t = "kelurahan" -> [features |-> <<Kel>>]

\* The body of load_data over the three files, each missing, corrupt (not
\* JSON) or valid: json.load raises on a corrupt file.
LoadFiles(fs) ==
    IF \E t \in Tiers : fs[t] = "corrupt"
    THEN [raised |-> TRUE, value |-> NoneValue]
    ELSE [raised |-> FALSE,
          value |-> [t \in Tiers |->
                        IF fs[t] = "valid" THEN Document(t) ELSE NoneValue]]

\* @st.cache_data load_data(): the body runs when nothing is cached; a return
\* value is cached, an exception is not.
load_data(cache, fs) ==
    IF cache.full
    THEN [raised |-> FALSE, value |-> cache.value, cache |-> cache, ran |-> FALSE]
    ELSE LET r == LoadFiles(fs)
         IN IF r.raised
            THEN [raised |-> TRUE, value |-> NoneValue, cache |-> cache, ran |-> TRUE]
            ELSE [raised |-> FALSE, value |-> r.value, cache |-> Cached(r.value),
                  ran |-> TRUE]

\* The body of load_remote_csv: the DataFrame, or None on any exception.
Fetch(sh) == IF sh.up THEN sh.table ELSE NoneValue

\* load_remote_csv with the mutation: no @st.cache_data
load_remote_csv_uncached(cache, sh) ==
    [value |-> Fetch(sh), cache |-> cache, fetched |-> TRUE]

\* @st.cache_data load_remote_csv(url), for the one url main passes
load_remote_csv(cache, sh) ==
    IF cache.full
    THEN [value |-> cache.value, cache |-> cache, fetched |-> FALSE]
    ELSE LET v == Fetch(sh)
         IN [value |-> v, cache |-> Cached(v), fetched |-> TRUE]

\* the Refresh branch with the mutation: the cache is not cleared
clear_nothing(cache) == cache

\* load_remote_csv.clear()
clear(cache) == EmptyCache

NoSingle == [shown |-> "none", latlon |-> <<NoneValue, NoneValue>>,
             found |-> [t \in Tiers |-> NoneValue]]
NoCoverage == [shown |-> "none", layer |-> <<>>]

\* The script after data = load_data() returned or raised.
AfterLoad(ld, pressed, u, cc, sh) ==
    IF ld.raised
    THEN [outcome |-> "raised", dataCache |-> ld.cache, csvCache |-> cc,
          single |-> NoSingle, coverage |-> NoCoverage,
          fetched |-> FALSE, loaded |-> ld.ran]
    ELSE IF pressed
    THEN [outcome |-> "rerun", dataCache |-> ld.cache, csvCache |-> clear(cc),
          single |-> SingleTab(u, ld.value), coverage |-> NoCoverage,
          fetched |-> FALSE, loaded |-> ld.ran]
    ELSE Once(load_remote_csv(cc, sh), LAMBDA csv :
            [outcome |-> "done", dataCache |-> ld.cache, csvCache |-> csv.cache,
             single |-> SingleTab(u, ld.value),
             coverage |-> CoverageTab(csv.value, ld.value["sls"]),
             fetched |-> csv.fetched, loaded |-> ld.ran])

\* One run of the script; pressed: the Refresh button reads True in this run.
main(pressed, u, dc, cc, fs, sh) ==
    Once(load_data(dc, fs), LAMBDA ld : AfterLoad(ld, pressed, u, cc, sh))

\* The runs one event causes: st.rerun() ends the run and starts another.
Runs(pressed, u, dc, cc, fs, sh) ==
    Once(main(pressed, u, dc, cc, fs, sh), LAMBDA first :
        IF first.outcome = "rerun"
        THEN Once(main(FALSE, u, first.dataCache, first.csvCache, fs, sh),
                  LAMBDA again : [again EXCEPT !.loaded = first.loaded \/ again.loaded])
        ELSE first)

NoParts == [lead |-> <<>>, rt |-> <<>>, ws1 |-> <<>>, digs |-> <<>>,
            ws2 |-> <<>>, rem |-> <<>>, trail |-> <<>>]

\* ---------------------------------------------------- inputs of the extractor
\* The pieces a link is put together from: '@lat,lon' segments, 'q=lat,lon'
\* parameters (each with the pair it spells) and text that is neither.
UrlPieces == <<
    [kind |-> "at", text |-> <<"@", "-", "8", ".", "6", "2", ",", "1", "1", "6", ".", "0", "8">>,
     lat |-> Float(-862, 2), lon |-> Float(11608, 2)],
    [kind |-> "at", text |-> <<"@", "0", ".", "5", "0", ",", "1", "1", "6", ".", "0", "8", "0">>,
     lat |-> Float(5, 1), lon |-> Float(11608, 2)],
    [kind |-> "q", text |-> <<"q", "=", "-", "8", ".", "5", "8", ",", "1", "1", "6", ".", "1", "1">>,
     lat |-> Float(-858, 2), lon |-> Float(11611, 2)],
    [kind |-> "q", text |-> <<"q", "=", "3", ".", "2", "5", ",", "-", "4", ".", "0">>,
     lat |-> Float(325, 2), lon |-> Float(-4, 0)],
    [kind |-> "other", text |-> <<"/", "m", "a", "p", "s", "/">>, lat |-> NoneValue, lon |-> NoneValue],
    [kind |-> "other", text |-> <<",", "1", "8", "z">>, lat |-> NoneValue, lon |-> NoneValue],
    [kind |-> "other", text |-> <<"?">>, lat |-> NoneValue, lon |-> NoneValue],
    [kind |-> "other", text |-> <<"@", "1", ",", "2">>, lat |-> NoneValue, lon |-> NoneValue],
    [kind |-> "other", text |-> <<"q", "=", "-", "8", ".", "5">>, lat |-> NoneValue, lon |-> NoneValue],
    [kind |-> "other", text |-> <<"@", "h", "o", "m", "e">>, lat |-> NoneValue, lon |-> NoneValue]
>>

UrlShapes == UNION {[1..n -> 1..Len(UrlPieces)] : n \in 0..MaxSegs}

RECURSIVE Spell(_)
Spell(segs) ==
    IF segs = <<>> THEN <<>>
    ELSE UrlPieces[segs[1]].text \o Spell(SubSeq(segs, 2, Len(segs)))

\* ------------------------------------------------- inputs of the normalizer
Blanks == {<<>>, <<" ">>, <<" ", "\t">>}
Leads == {<<>>, <<" ">>, <<"S", "T", "A">>, <<"K", "E", "L", " ", "B", " ">>}
RtTokens == {<<>>, <<"R", "T">>, <<"r", "t">>, <<"R", "t">>}
NumStrs == {<<"0">>, <<"9">>, <<"1", "2">>, <<"1", "0", "0", "0">>}
DigitStrs == {<<>>} \cup {Zeros(k) \o d : k \in 0..MaxPad, d \in NumStrs}
Remainders == {<<>>, <<"A">>, <<"a", " ", "b">>, <<"R", "T", " ", "6", " ", "C">>,
               <<"A", " ", "\n", "B">>, <<"5", " ", "X">>}
Trails == {<<>>, <<" ", "\n">>}

RawAlphabet == {"R", "T", " ", "1", "a"}
RawStrings == UNION {[1..n -> RawAlphabet] : n \in 0..MaxLen}

NameParts ==
    [lead : Leads, rt : RtTokens, ws1 : Blanks, digs : DigitStrs,
     ws2 : Blanks, rem : Remainders, trail : Trails]
    \cup {[NoParts EXCEPT !.lead = r] : r \in RawStrings}

Compose(p) == p.lead \o p.rt \o p.ws1 \o p.digs \o p.ws2 \o p.rem \o p.trail

\* ------------------------------------------------------ inputs of the locator
FeaturePool == {SlsA, SlsB, SlsC, SlsNoType, SlsNull}

Collections ==
    {NoneValue} \cup
    {[features |-> fs] : fs \in UNION {[1..n -> FeaturePool] : n \in 0..MaxFeatures}}

\* Inside one rectangle, inside two, on a shared edge, outside all.
Longitudes == {Float(11608, 2), Float(1175, 1), Float(118, 0), Float(1185, 1)}
Latitudes == {Float(-862, 2), Float(-75, 1), Float(-65, 1)}

\* ------------------------------------------------- inputs of the coverage map
CoverPool == {SlsA, SlsB, SlsC, SlsNull}

CoverCollections ==
    {NoneValue} \cup
    {[features |-> fs] : fs \in UNION {[1..n -> CoverPool] : n \in 0..MaxFeatures}}

CellPool == {Str(<<"r", "t", " ", "9", " ", "a">>), Str(<<"B">>),
             Str(<<"R", "T", " ", "1", " ", "Z">>), NotAStr, NaN}

\* A sheet layout: its header, and the column its names are written in.
Layouts == {[columns |-> <<"Nama">>, at |-> 1],
            [columns |-> <<"No", "Nama">>, at |-> 2],
            [columns |-> <<"Nama", "No", "SLS">>, at |-> 3],
            [columns |-> <<"Nama", "No">>, at |-> 1]}

Decoy == Str(<<"b">>)

Table(layout, cells) ==
    [columns |-> layout.columns,
     rows |-> [r \in 1..Len(cells) |->
                  [c \in 1..Len(layout.columns) |->
                      IF c = layout.at THEN cells[r] ELSE Decoy]]]

Tables ==
    {Table(l, cells) : l \in Layouts,
                       cells \in UNION {[1..n -> CellPool] : n \in 0..MaxRows}}

\* ----------------------------------------------------------- inputs of the app
FileStates == {"missing", "corrupt", "valid"}

SheetDown == [up |-> FALSE, table |-> NoneValue]
SheetOne == [up |-> TRUE,
             table |-> Table([columns |-> <<"Waktu", "SLS">>, at |-> 2],
                             <<Str(<<"r", "t", " ", "9", " ", "a">>), NaN>>)]
SheetTwo == [up |-> TRUE,
             table |-> Table([columns |-> <<"No", "Nama">>, at |-> 2],
                             <<Str(<<"R", "T", " ", "1", " ", "Z">>), Str(<<"B">>)>>)]
Sheets == {SheetDown, SheetOne, SheetTwo}

\* The links typed into tab 1: one with a pt in the data, one without
\* coordinates.
LinkInside == <<"/", "@", "-", "8", ".", "6", "2", ",", "1", "1", "6", ".", "0", "8", ",", "1", "8", "z">>
LinkNoCoords == <<"/", "m", "a", "p", "s">>
Links == {LinkInside, LinkNoCoords}

NormIdle ==
    /\ parts = NoParts
    /\ name = NotAStr
    /\ normalized = <<>>
    /\ renormalized = <<>>
    /\ pcN = "idle"

ExtractIdle ==
    /\ urlSegs = <<>>
    /\ urlText = <<>>
    /\ coords = <<NoneValue, NoneValue>>
    /\ pcE = "idle"

\* --------------------------------------------------------- specifications
LocateIdle ==
    /\ pt = Point(Float(0, 0), Float(0, 0))
    /\ geojson = NoneValue
    /\ located = NoneValue
    /\ pcL = "idle"

CoverIdle ==
    /\ frame = NoneValue
    /\ boundaries = NoneValue
    /\ covered = {}
    /\ drawn = NoCoverage
    /\ pcC = "idle"

NoView == [status |-> "none", single |-> NoSingle, coverage |-> NoCoverage]
NoStep == [act |-> "none", csvBefore |-> EmptyCache, fetched |-> FALSE,
           loaded |-> FALSE]
NoEpoch == [begun |-> FALSE, sheet |-> SheetDown]

AppIdle ==
    /\ files = [t \in Tiers |-> "missing"]
    /\ sheet = SheetDown
    /\ dataCache = EmptyCache
    /\ csvCache = EmptyCache
    /\ link = <<>>
    /\ view = NoView
    /\ lastStep = NoStep
    /\ epoch = NoEpoch

\* normalize_sls_name
InitNorm ==
    /\ ExtractIdle /\ LocateIdle /\ CoverIdle /\ AppIdle
    /\ parts \in NameParts
    /\ name \in {Str(Compose(parts))} \cup (IF parts = NoParts THEN {NotAStr} ELSE {})
    /\ normalized = <<>>
    /\ renormalized = <<>>
    /\ pcN = "in"

NormalizeOnce ==
    /\ pcN = "in"
    /\ normalized' = normalize_sls_name(name)
    /\ pcN' = "once"
    /\ UNCHANGED <<parts, name, renormalized>>
    /\ UNCHANGED <<extractVars, locateVars, coverVars, appVars>>

NormalizeAgain ==
    /\ pcN = "once"
    /\ renormalized' = normalize_sls_name(Str(normalized))
    /\ pcN' = "twice"
    /\ UNCHANGED <<parts, name, normalized>>
    /\ UNCHANGED <<extractVars, locateVars, coverVars, appVars>>

NextNorm == NormalizeOnce \/ NormalizeAgain

SpecNorm == InitNorm /\ [][NextNorm]_vars

\* extract_coords
InitExtract ==
    /\ NormIdle /\ LocateIdle /\ CoverIdle /\ AppIdle
    /\ urlSegs \in UrlShapes
    /\ urlText = Spell(urlSegs)
    /\ coords = <<NoneValue, NoneValue>>
    /\ pcE = "in"

Extract ==
    /\ pcE = "in"
    /\ coords' = extract_coords(urlText)
    /\ pcE' = "done"
    /\ UNCHANGED <<urlSegs, urlText>>
    /\ UNCHANGED <<normVars, locateVars, coverVars, appVars>>

NextExtract == Extract

SpecExtract == InitExtract /\ [][NextExtract]_vars

\* find_containing_feature
InitLocate ==
    /\ NormIdle /\ ExtractIdle /\ CoverIdle /\ AppIdle
    /\ pt \in {Point(x, y) : x \in Longitudes, y \in Latitudes}
    /\ geojson \in Collections
    /\ located = NoneValue
    /\ pcL = "in"

Locate ==
    /\ pcL = "in"
    /\ located' = find_containing_feature(pt, geojson)
    /\ pcL' = "done"
    /\ UNCHANGED <<pt, geojson>>
    /\ UNCHANGED <<normVars, extractVars, coverVars, appVars>>

NextLocate == Locate

SpecLocate == InitLocate /\ [][NextLocate]_vars

\* the coverage map: main, lines 244-248, and create_coverage_map
InitCover ==
    /\ NormIdle /\ ExtractIdle /\ LocateIdle /\ AppIdle
    /\ frame \in Tables
    /\ boundaries \in CoverCollections
    /\ covered = {}
    /\ drawn = NoCoverage
    /\ pcC = "in"

Cover ==
    /\ pcC = "in"
    /\ \E input_names \in {InputNames(frame)} :
          /\ covered' = input_names
          /\ drawn' = create_coverage_map(boundaries, input_names, "nmsls")
    /\ pcC' = "done"
    /\ UNCHANGED <<frame, boundaries>>
    /\ UNCHANGED <<normVars, extractVars, locateVars, appVars>>

NextCover == Cover

SpecCover == InitCover /\ [][NextCover]_vars

\* the running app: the server has started, nothing is cached, no page is open
Init ==
    /\ NormIdle /\ ExtractIdle /\ LocateIdle /\ CoverIdle
    /\ files \in [Tiers -> FileStates]
    /\ sheet \in Sheets
    /\ dataCache = EmptyCache
    /\ csvCache = EmptyCache
    /\ link = <<>>
    /\ view = NoView
    /\ lastStep = NoStep
    /\ epoch = NoEpoch

\* What an event's runs leave behind.
Render(act, pressed, u) ==
    \E r \in {Runs(pressed, u, dataCache, csvCache, files, sheet)} :
       /\ link' = u
       /\ dataCache' = r.dataCache
       /\ csvCache' = r.csvCache
       /\ view' = [status |-> IF r.outcome = "raised" THEN "crashed" ELSE "ok",
                   single |-> r.single, coverage |-> r.coverage]
       /\ lastStep' = [act |-> act, csvBefore |-> csvCache,
                       fetched |-> r.fetched, loaded |-> r.loaded]
       /\ epoch' = IF r.outcome = "raised" THEN epoch
                   ELSE IF pressed \/ ~epoch.begun
                   THEN [begun |-> TRUE, sheet |-> sheet]
                   ELSE epoch
       /\ UNCHANGED <<files, sheet>>
       /\ UNCHANGED <<normVars, extractVars, locateVars, coverVars>>

\* A browser opens or reloads the page: a new session, the text input empty.
OpenPage == Render("OpenPage", FALSE, <<>>)

\* The user submits a link in tab 1 (the page must have rendered the input).
SetUrl ==
    /\ view.status = "ok"
    /\ \E u \in Links \cup {<<>>} : u # link /\ Render("SetUrl", FALSE, u)

\* The user clicks Refresh Data (the page must have rendered the button).
Refresh ==
    /\ view.status = "ok"
    /\ Render("Refresh", TRUE, link)

\* The spreadsheet is edited, or goes out of reach, or comes back.
SheetChange ==
    /\ \E s \in Sheets : s # sheet /\ sheet' = s
    /\ lastStep' = [NoStep EXCEPT !.act = "SheetChange", !.csvBefore = csvCache]
    /\ UNCHANGED <<files, dataCache, csvCache, link, view, epoch>>
    /\ UNCHANGED <<normVars, extractVars, locateVars, coverVars>>

\* A data file is replaced, removed or damaged on disk.
FileChange ==
    /\ \E t \in Tiers, f \in FileStates :
          /\ f # files[t]
          /\ files' = [files EXCEPT ![t] = f]
    /\ lastStep' = [NoStep EXCEPT !.act = "FileChange", !.csvBefore = csvCache]
    /\ UNCHANGED <<sheet, dataCache, csvCache, link, view, epoch>>
    /\ UNCHANGED <<normVars, extractVars, locateVars, coverVars>>

Next == OpenPage \/ SetUrl \/ Refresh \/ SheetChange \/ FileChange

Spec == Init /\ [][Next]_vars

\* ------------------------------------------------------------------ claims
\* C3: normalize_sls_name is idempotent: normalizing a normalized name gives
\* the same string, also when RT is not at the start, when the remainder
\* holds another RT group, and when nothing follows the number.
C3_Idempotent == pcN = "twice" => renormalized = normalized

C3_Witness ==
    /\ pcN = "twice"
    /\ parts.lead = <<"K", "E", "L", " ", "B", " ">>
    /\ parts.rem = <<"A", " ", "\n", "B">>
    /\ normalized = <<"R", "T", " ", "0", "0", "9", " ", "A">>
    /\ renormalized = normalized

IsBlank(s) == \A i \in 1..Len(s) : IsSpace(s[i])

\* The unit number a digit string writes, with at least three digits.
AtLeastThreeDigits(ds) ==
    LET nz == {i \in 1..Len(ds) : ds[i] # "0"}
        sig == IF nz = {} THEN <<"0">> ELSE SubSeq(ds, Min(nz), Len(ds))
    IN Zeros(3 - Len(sig)) \o sig

\* An input of the shape: RT, whitespace, digits, whitespace, remainder, with
\* whitespace around it.
RtShaped(p) ==
    /\ IsBlank(p.lead)
    /\ p.rt # <<>>
    /\ p.ws1 # <<>>
    /\ p.digs # <<>>
    /\ p.ws2 # <<>>
    /\ IsBlank(p.trail)

\* C4: every input RT, whitespace, n (with any zero padding), whitespace, r
\* normalizes to RT + space + n in at least three digits + space + the
\* uppercased, trimmed r.
C4_Canonical ==
    (pcN # "in" /\ RtShaped(parts)) =>
        normalized = <<"R", "T", " ">> \o AtLeastThreeDigits(parts.digs)
                        \o <<" ">> \o strip(upper(parts.rem))

\* The string starts with the token RT followed by digits.
LeadingRt(s) ==
    /\ Len(s) >= 3
    /\ s[1] = "R"
    /\ s[2] = "T"
    /\ LET k == RunEnd(s, 3, IsSpace) IN k <= Len(s) /\ IsDigit(s[k])

\* C5: a string whose uppercased, trimmed form does not start with RT and
\* digits comes back as exactly its uppercased, trimmed form.
C5_Fallback ==
    (pcN # "in" /\ name.t = "str" /\ ~LeadingRt(strip(upper(name.s)))) =>
        normalized = strip(upper(name.s))

\* The pair the pieces of a link spell: that of the first '@' segment, else
\* that of the first 'q=' parameter, else none.
FirstOfKind(segs, kind) ==
    LET at == {i \in 1..Len(segs) : UrlPieces[segs[i]].kind = kind}
    IN UrlPieces[segs[Min(at)]]

HasKind(segs, kind) == \E i \in 1..Len(segs) : UrlPieces[segs[i]].kind = kind

\* C6: the '@' pattern is tried before the 'q=' pattern: with both in the
\* text the '@' pair is returned wherever it stands, with only 'q=' that
\* pair, with neither (None, None).
C6_PatternOrder ==
    pcE = "done" =>
        coords = IF HasKind(urlSegs, "at")
                 THEN <<FirstOfKind(urlSegs, "at").lat, FirstOfKind(urlSegs, "at").lon>>
                 ELSE IF HasKind(urlSegs, "q")
                 THEN <<FirstOfKind(urlSegs, "q").lat, FirstOfKind(urlSegs, "q").lon>>
                 ELSE <<NoneValue, NoneValue>>

\* A link with the 'q=' parameter before the '@' segment.
C6_Witness ==
    /\ pcE = "done"
    /\ Len(urlSegs) = 3
    /\ UrlPieces[urlSegs[1]].kind = "q"
    /\ UrlPieces[urlSegs[3]].kind = "at"
    /\ coords = <<Float(-862, 2), Float(11608, 2)>>

\* The positions of the features that contain the point.
Containing(features, p) ==
    {i \in 1..Len(features) :
        /\ ~ShapeRaises(features[i].geometry)
        /\ contains(features[i].geometry, p)}

\* C1: find_containing_feature returns the feature lowest in collection
\* order whose geometry contains the point, and None exactly when no feature
\* contains it; where polygons overlap, one feature is returned, the first.
C1_FirstMatch ==
    pcL = "done" =>
        IF Truthy(geojson) /\ Containing(geojson.features, pt) # {}
        THEN located = geojson.features[Min(Containing(geojson.features, pt))]
        ELSE located = NoneValue

\* Two overlapping polygons contain the point; the first is returned.
C1_Witness ==
    /\ pcL = "done"
    /\ Truthy(geojson)
    /\ Cardinality(Containing(geojson.features, pt)) >= 2
    /\ located = SlsB
    /\ geojson.features[Max(Containing(geojson.features, pt))] = SlsA

WellFormed(feature) == ~ShapeRaises(feature.geometry)

\* C7: malformed geometries never abort the scan: no error leaves
\* find_containing_feature, and the result is the first containing feature
\* among the well-formed ones (None if there is none), wherever the
\* malformed ones stand.
C7_SkipMalformed ==
    (pcL = "done" /\ Truthy(geojson)) =>
        LET sound == SelectSeq(geojson.features, WellFormed)
            hits == {i \in 1..Len(sound) : contains(sound[i].geometry, pt)}
        IN /\ located # Raised
           /\ located = IF hits = {} THEN NoneValue ELSE sound[Min(hits)]

\* Two malformed geometries come before the polygon that contains the point.
C7_Witness ==
    /\ pcL = "done"
    /\ Truthy(geojson)
    /\ Len(geojson.features) = 3
    /\ geojson.features[1] = SlsNull
    /\ geojson.features[2] = SlsNoType
    /\ located = geojson.features[3]
    /\ located = SlsC

\* C2: the coverage layer has one entry per feature of the collection, in
\* its order, and an entry is drawn as covered exactly when the feature's
\* normalized name is in the survey set; survey names that match no feature
\* add no entry.
C2_Coverage ==
    (pcC = "done" /\ Truthy(boundaries)) =>
        /\ drawn.shown = "map"
        /\ Len(drawn.layer) = Len(boundaries.features)
        /\ \A i \in 1..Len(boundaries.features) :
              /\ drawn.layer[i].feature = boundaries.features[i]
              /\ (drawn.layer[i].style.fillColor = "#00FF00") <=>
                    (normalize_sls_name(Get(boundaries.features[i].properties,
                                            "nmsls", Str(<<>>))) \in covered)
              /\ (drawn.layer[i].style.fillColor = "#FF0000") <=>
                    (normalize_sls_name(Get(boundaries.features[i].properties,
                                            "nmsls", Str(<<>>))) \notin covered)

\* A feature named "RT 9 A" is covered by the survey row "rt 9 a", one is
\* not covered, and the survey name RT 001 Z matches no feature.
C2_Witness ==
    /\ pcC = "done"
    /\ Truthy(boundaries)
    /\ boundaries.features = <<SlsB, SlsC>>
    /\ covered = {<<"R", "T", " ", "0", "0", "9", " ", "A">>,
                  <<"R", "T", " ", "0", "0", "1", " ", "Z">>}
    /\ drawn.layer[1].style.fillColor = "#00FF00"
    /\ drawn.layer[2].style.fillColor = "#FF0000"

RunActs == {"OpenPage", "SetUrl", "Refresh"}

\* C8: whatever the three files are (valid, missing, not parseable),
\* load_data completes, the tiers whose file is missing or not parseable are
\* absent and the others loaded, and a lookup finds nothing in an absent
\* tier.
C8_LoadDegrades ==
    (lastStep.act \in RunActs /\ lastStep.loaded) =>
        /\ view.status = "ok"
        /\ dataCache.full
        /\ \A t \in Tiers :
              /\ (dataCache.value[t] = NoneValue) <=> (files[t] # "valid")
              /\ (dataCache.value[t] # NoneValue) <=> (dataCache.value[t] = Document(t))
              /\ dataCache.value[t] = NoneValue => view.single.found[t] = NoneValue

\* C9 as stated: every analysis is computed from what the survey source
\* holds at the time of that request.
C9_FreshEveryRequest ==
    (lastStep.act \in RunActs /\ view.status = "ok") =>
        view.coverage = CoverageTab(Fetch(sheet), dataCache.value["sls"])

\* C9, amended: every analysis is computed anew, from what the survey source
\* held at the first analysis since the server started or since the last
\* Refresh.
C9_FromEpochFetch ==
    view.status = "ok" =>
        view.coverage = CoverageTab(Fetch(epoch.sheet), dataCache.value["sls"])

\* An analysis after the sheet changed, drawn from the sheet as it was.
C9_Witness ==
    /\ lastStep.act = "SetUrl"
    /\ view.status = "ok"
    /\ view.coverage.shown = "map"
    /\ epoch.sheet = SheetOne
    /\ sheet = SheetTwo
    /\ view.coverage # CoverageTab(Fetch(sheet), dataCache.value["sls"])

\* C10: the analysis of a Refresh uses a new fetch of the survey source as
\* it is now, whatever was cached (a failure too); an analysis without
\* Refresh reuses the cached outcome, success or failure, and fetches
\* nothing; Refresh leaves the cache of load_data as it was.
C10_Refresh ==
    [][ /\ lastStep'.act = "Refresh" =>
            /\ lastStep'.fetched
            /\ csvCache' = Cached(Fetch(sheet'))
            /\ view'.coverage = CoverageTab(Fetch(sheet'), dataCache'.value["sls"])
            /\ dataCache' = dataCache
        /\ (lastStep'.act \in RunActs \ {"Refresh"} /\ csvCache.full) =>
            /\ ~lastStep'.fetched
            /\ csvCache' = csvCache
            /\ view'.status = "ok" =>
                  view'.coverage = CoverageTab(csvCache.value, dataCache'.value["sls"])
      ]_vars

\* A Refresh after a failed fetch was cached, now drawing the map.
C10_Witness ==
    /\ lastStep.act = "Refresh"
    /\ lastStep.csvBefore = Cached(NoneValue)
    /\ lastStep.fetched
    /\ view.coverage.shown = "map"

====
